---- MODULE Spec2Model ----
(***************************************************************************)
(* Model of bulk-service-actions (tnso_bulk_service_actions): the          *)
(* operational service list /bulk-service-actions/services, the approved   *)
(* diffs, the wildcard settings, and the action callbacks that read and    *)
(* write them inside NSO transactions.                                     *)
(*                                                                         *)
(* Every callback is one atomic action: it runs in a write transaction     *)
(* that is applied at its end, or is abandoned when an exception escapes.  *)
(***************************************************************************)
EXTENDS Integers, Sequences, FiniteSets, TLC

VARIABLES
    services,       \* /bulk-service-actions/services: keypath -> list entry
    approved_diffs, \* /bulk-service-actions/approved-diffs: set of diff texts
    wildcard,       \* /bulk-service-actions/settings/diff-checking/wildcard
    now,            \* the clock read by datetime.datetime.now()
    pending,        \* a batch between build_service_set and its write transaction
    tasks,          \* /scheduler/task: task name -> task
    last            \* history: what the most recent callback did

vars == <<services, approved_diffs, wildcard, now, pending, tasks, last>>

----------------------------------------------------------------------------
(* Bounds of the model *)

\* the clock stops here: every callback moves the clock by one
MaxTime == 5

\* top-level services found under settings/service-list/top-level-types
Keys == {"A", "B"}

\* a keypath a caller may name that is no service of the configuration
UnknownKey == "X"

\* modified services of each top-level service that match target-sublayers
ModifiedOf(key) == IF key = "A" THEN {"A1", "A2"} ELSE {}

SubKeys == UNION {ModifiedOf(k) : k \in Keys}

Units == Keys \cup SubKeys

Devices == {"d1", "d2"}

EmptyOutput == [d \in {} |-> <<>>]

\* the changed devices a dry-run may report, with their native output; a
\* diff text is a sequence of characters
DeviceOutputs ==
    {EmptyOutput,
     [d \in {"d1"} |-> <<"a", "1">>],
     [d \in Devices |-> IF d = "d1" THEN <<"a", "1">> ELSE <<"a", "2">>]}

\* a wildcard is a regular expression; modelled as a sequence of character
\* classes (a match is a substring whose characters lie in the classes)
Digit == <<{"1", "2"}>>

WildcardTables == {<<>>, <<Digit>>}

----------------------------------------------------------------------------
(* parse_dry_run: the wildcard substitution *)

\* the decimal digit of a wildcard's position in the list
IndexDigit(index) ==
    IF index = 1 THEN "1" ELSE IF index = 2 THEN "2" ELSE "3"

\* f"*WILDCARD{index+1}*": the literal prefix, the digit, the closing star;
\* the digit is a character of the text like any other
WildcardToken(index) == <<"*WILDCARD", IndexDigit(index), "*">>

MatchesAt(pattern, text) ==
    /\ Len(pattern) <= Len(text)
    /\ \A i \in 1..Len(pattern) : text[i] \in pattern[i]

\* re.sub(pattern, repl, text): leftmost, non-overlapping matches replaced
RECURSIVE re_sub(_, _, _)
re_sub(pattern, repl, text) ==
    IF Len(text) < Len(pattern) \/ Len(text) = 0
    THEN text
    ELSE IF MatchesAt(pattern, text)
         THEN repl \o re_sub(pattern, repl,
                                 SubSeq(text, Len(pattern) + 1, Len(text)))
         ELSE <<Head(text)>> \o re_sub(pattern, repl, Tail(text))

RECURSIVE parse_from(_, _, _)
parse_from(table, index, text) ==
    IF index > Len(table)
    THEN text
    ELSE parse_from(table, index + 1,
                    re_sub(table[index], WildcardToken(index), text))

\* the formatting "expanded to do more": a newline closes the output
parse_dry_run_table_newline(dry_run, table) ==
    parse_from(table, 1, dry_run) \o <<"\n">>

parse_dry_run_table(dry_run, table) == parse_from(table, 1, dry_run)

\* parse_dry_run reads the wildcards in a read transaction of its own
parse_dry_run(dry_run) == parse_dry_run_table(dry_run, wildcard)

----------------------------------------------------------------------------
(* The list entries *)

NoTime == 0

NoError == ""

ExecError == "_ncs.error.Error"

NotReadyTop == "not flagged as redeploy-ready, skipping"

NotReadySub == "not flagged as redeploy-ready or not yet redeployed, skipping"

ErrorNote == "There were errors during one or more redeploys"

NotReadyNote == "Redeploy-ready not set for one or more services"

SeeNote == "See /bulk-service-actions/services for output"

CalledNote == "action called"

NoDryRun == [present |-> FALSE, fetched_at |-> NoTime, output |-> EmptyOutput]

\* a list entry right after create(): only its key is set
NewEntry ==
    [dry_run |-> NoDryRun, redeploy_ready |-> FALSE,
     redeployed_at |-> NoTime, last_redeploy_error |-> NoError]

NewService(key) ==
    [dry_run |-> NoDryRun, redeploy_ready |-> FALSE,
     redeployed_at |-> NoTime, last_redeploy_error |-> NoError,
     modified_services |-> [m \in ModifiedOf(key) |-> NewEntry]]

----------------------------------------------------------------------------
(* build_service_set: the targets of an action *)

SubsetFlags ==
    {"last-redeploy-error", "no-dry-run-diff", "no-dry-run-fetched-at",
     "no-redeployed-at", "redeployed-at", "redeploy-ready"}

NoSubset == [present |-> FALSE, flags |-> {}]

\* targets/keypath is a leaf-list: a sequence, in which a key may recur
NoTargets ==
    [present |-> FALSE, all |-> FALSE, subset |-> NoSubset, keypath |-> <<>>]

TargetAll ==
    [present |-> TRUE, all |-> TRUE, subset |-> NoSubset, keypath |-> <<>>]

TargetAllExcept(keys) ==
    [present |-> TRUE, all |-> TRUE, subset |-> NoSubset, keypath |-> keys]

TargetSubset(flags, keys) ==
    [present |-> TRUE, all |-> TRUE,
     subset |-> [present |-> TRUE, flags |-> flags], keypath |-> keys]

TargetKeypath(keys) ==
    [present |-> TRUE, all |-> FALSE, subset |-> NoSubset, keypath |-> keys]

\* should_include_service without the last test: redeploy-ready is never
\* looked at
should_include_service_five_flags(service, subset) ==
    \/ "last-redeploy-error" \in subset.flags
         /\ service.last_redeploy_error # NoError
    \/ "no-dry-run-diff" \in subset.flags
         /\ Cardinality(DOMAIN service.dry_run.output) = 0
    \/ "no-dry-run-fetched-at" \in subset.flags
         /\ service.dry_run.fetched_at = NoTime
    \/ "no-redeployed-at" \in subset.flags /\ service.redeployed_at = NoTime
    \/ "redeployed-at" \in subset.flags /\ service.redeployed_at # NoTime

should_include_service(service, subset) ==
    \/ "last-redeploy-error" \in subset.flags
         /\ service.last_redeploy_error # NoError
    \/ "no-dry-run-diff" \in subset.flags
         /\ Cardinality(DOMAIN service.dry_run.output) = 0
    \/ "no-dry-run-fetched-at" \in subset.flags
         /\ service.dry_run.fetched_at = NoTime
    \/ "no-redeployed-at" \in subset.flags /\ service.redeployed_at = NoTime
    \/ "redeployed-at" \in subset.flags /\ service.redeployed_at # NoTime
    \/ "redeploy-ready" \in subset.flags /\ service.redeploy_ready

\* set(list(node.targets.keypath))
SetOf(keypath) == {keypath[i] : i \in DOMAIN keypath}

\* build_service_set acting on nothing when no targets are given
service_set_nothing_without_targets(targets, list) ==
    LET all_services == DOMAIN list IN
    IF ~targets.present THEN {}
    ELSE IF targets.all
         THEN IF targets.subset.present
              THEN {k \in all_services :
                      should_include_service(list[k], targets.subset)}
              ELSE IF Len(targets.keypath) > 0
                   THEN all_services \ SetOf(targets.keypath)
                   ELSE all_services
         ELSE SetOf(targets.keypath)

\* build_service_set taking the keypath beside all as include
service_set_exclude_as_include(targets, list) ==
    LET all_services == DOMAIN list IN
    IF ~targets.present THEN all_services
    ELSE IF targets.all
         THEN IF targets.subset.present
              THEN {k \in all_services :
                      should_include_service(list[k], targets.subset)}
              ELSE IF Len(targets.keypath) > 0
                   THEN SetOf(targets.keypath)
                   ELSE all_services
         ELSE SetOf(targets.keypath)

\* build_service_set dropping the keys that are not in the list
service_set_validated(targets, list) ==
    LET all_services == DOMAIN list IN
    IF ~targets.present THEN all_services
    ELSE IF targets.all
         THEN IF targets.subset.present
              THEN {k \in all_services :
                      should_include_service(list[k], targets.subset)}
              ELSE IF Len(targets.keypath) > 0
                   THEN all_services \ SetOf(targets.keypath)
                   ELSE all_services
         ELSE SetOf(targets.keypath) \cap all_services

\* the keys build_service_set returns from the list `list` (no error case)
service_set(targets, list) ==
    LET all_services == DOMAIN list IN
    IF ~targets.present THEN all_services
    ELSE IF targets.all
         THEN IF targets.subset.present
              THEN {k \in all_services :
                      should_include_service(list[k], targets.subset)}
              ELSE IF Len(targets.keypath) > 0
                   THEN all_services \ SetOf(targets.keypath)
                   ELSE all_services
         ELSE SetOf(targets.keypath)

\* build_service_set without the check of lines 86-87
build_service_set_unchecked(targets) ==
    [error |-> FALSE, keys |-> service_set(targets, services)]

\* raises AttributeError when the list is empty
build_service_set(targets) ==
    IF Cardinality(DOMAIN services) = 0
    THEN [error |-> TRUE, keys |-> {}]
    ELSE [error |-> FALSE, keys |-> service_set(targets, services)]

----------------------------------------------------------------------------
(* able_to_redeploy and redeploy: one (sub)service, one attempt *)

\* able_to_redeploy with the calling class forgotten: redeployed-at opens
\* the way for every caller
able_to_redeploy_any_caller(dry_run, service, calling_class) ==
    IF ~dry_run
    THEN service.redeploy_ready \/ service.redeployed_at # NoTime
    ELSE TRUE

able_to_redeploy(dry_run, service, calling_class) ==
    IF ~dry_run
    THEN \/ service.redeploy_ready
         \/ calling_class = "ReconcileSublayers"
              /\ service.redeployed_at # NoTime
    ELSE TRUE

\* what node.re_deploy(inputs) does: raises, or returns the changed devices
\* (a dry-run, outformat native) or nothing to read (a commit)
ExecFailure == [error |-> TRUE, device |-> EmptyOutput]

CommitAck == [error |-> FALSE, device |-> EmptyOutput]

DryRunResults ==
    {[error |-> FALSE, device |-> f] : f \in DeviceOutputs}

ExecResults(dry_run) ==
    {ExecFailure} \cup (IF dry_run THEN DryRunResults ELSE {CommitAck})

\* RedeployTopLevel hands the approved-diffs list over, ReconcileSublayers
\* leaves the parameter at its default None
NoneDiffs == [given |-> FALSE, diffs |-> {}]

GivenDiffs(diffs) == [given |-> TRUE, diffs |-> diffs]

dry_run_true(service, result, approved) ==
    LET cleared == [service EXCEPT !.redeploy_ready = FALSE,
                                   !.last_redeploy_error = NoError]
        no_diff == Cardinality(DOMAIN result.device) = 0
        all_approved ==
            /\ approved.given
            /\ \A d \in DOMAIN result.device :
                 result.device[d] \in approved.diffs
    IN  IF no_diff \/ all_approved
        THEN [cleared EXCEPT !.redeploy_ready = TRUE]
        ELSE cleared

\* _dry_run_true_common without `del service.dry_run`: the outputs of the
\* devices of the earlier record stay
dry_run_true_common_keeps_devices(service, result, time_now) ==
    [service EXCEPT
       !.redeployed_at = NoTime,
       !.dry_run = [present |-> TRUE, fetched_at |-> time_now,
                    output |-> [d \in DOMAIN result.device
                                       \cup DOMAIN service.dry_run.output |->
                                  IF d \in DOMAIN result.device
                                  THEN parse_dry_run(result.device[d])
                                  ELSE service.dry_run.output[d]]]]

dry_run_true_common(service, result, time_now) ==
    [service EXCEPT
       !.redeployed_at = NoTime,
       !.dry_run = [present |-> TRUE, fetched_at |-> time_now,
                    output |-> [d \in DOMAIN result.device |->
                                  parse_dry_run(result.device[d])]]]

\* _dry_run_false deleting redeploy-ready whatever the reconcile flag
dry_run_false_clears_ready(service, commit_flags, time_now) ==
    [service EXCEPT !.redeployed_at = time_now,
                    !.last_redeploy_error = NoError,
                    !.dry_run = NoDryRun,
                    !.redeploy_ready = FALSE]

\* _dry_run_false without `del service.dry_run`
dry_run_false_keeps_dry_run(service, commit_flags, time_now) ==
    [service EXCEPT !.redeployed_at = time_now,
                    !.last_redeploy_error = NoError,
                    !.redeploy_ready = IF commit_flags.reconcile THEN @ ELSE FALSE]

\* a commit that leaves redeploy-ready as it was, reconcile or not
dry_run_false_keeps_ready(service, commit_flags, time_now) ==
    [service EXCEPT !.redeployed_at = time_now,
                    !.last_redeploy_error = NoError,
                    !.dry_run = NoDryRun]

dry_run_false(service, commit_flags, time_now) ==
    LET done == [service EXCEPT !.redeployed_at = time_now,
                                !.last_redeploy_error = NoError,
                                !.dry_run = NoDryRun]
    IN  IF ~commit_flags.reconcile
        THEN [done EXCEPT !.redeploy_ready = FALSE]
        ELSE done

\* the except branch also withdrawing the readiness
redeploy_failed_clears_ready(service) ==
    [service EXCEPT !.last_redeploy_error = ExecError,
                    !.redeploy_ready = FALSE]

redeploy_failed(service) ==
    [service EXCEPT !.last_redeploy_error = ExecError]

\* the entry after redeploy(); the note it adds to the output is ErrorNote
redeploy(service, commit_flags, result, approved, time_now) ==
    IF result.error
    THEN redeploy_failed(service)
    ELSE IF commit_flags.dry_run
         THEN dry_run_true_common(
                  IF commit_flags.reconcile
                  THEN dry_run_true(service, result, approved)
                  ELSE service,
                  result, time_now)
         ELSE dry_run_false(service, commit_flags, time_now)

\* the skip branch also withdrawing the readiness
mark_skipped_clears_ready(service, message) ==
    [service EXCEPT !.last_redeploy_error = message, !.redeploy_ready = FALSE]

\* the skip branch of the callbacks: only the error text is written
mark_skipped(service, message) ==
    [service EXCEPT !.last_redeploy_error = message]

redeploy_outcome(commit_flags, result) ==
    IF result.error THEN "Failed"
    ELSE IF commit_flags.dry_run THEN "DryRunSucceeded"
    ELSE "CommitSucceeded"

\* the except branch without output.add
redeploy_note_forgotten(result) == {}

redeploy_note(result) == IF result.error THEN {ErrorNote} ELSE {}

----------------------------------------------------------------------------
(* The activities of the scheduler service and the tasks it creates *)

\* schedule/at-time and schedule/in-time, either of which may be absent;
\* in-time is the text "<hours>h<minutes>m", of which the two numbers are
\* kept (minutes_given: the text has its minutes part)
NoAtTime == [given |-> FALSE, time |-> 0]

NoInTime == [given |-> FALSE, hours |-> 0, minutes |-> 0, minutes_given |-> FALSE]

AtTime(time) == [given |-> TRUE, time |-> time]

InTime(hours, minutes) ==
    [given |-> TRUE, hours |-> hours, minutes |-> minutes, minutes_given |-> TRUE]

InHours(hours) ==
    [given |-> TRUE, hours |-> hours, minutes |-> 0, minutes_given |-> FALSE]

\* a list entry of /bulk-service-actions/activity
NoRequest ==
    [action_name |-> "", at_time |-> NoAtTime, in_time |-> NoInTime,
     interval |-> 0, targets |-> NoTargets, dry_run |-> FALSE,
     no_networking |-> FALSE]

NoTasks == [name \in {} |-> NoRequest]

----------------------------------------------------------------------------
(* The history variable: what the most recent callback did *)

NoResult == [error |-> FALSE, device |-> EmptyOutput]

\* per (sub)service: Idle, Skipped, DryRunSucceeded, CommitSucceeded, Failed
IdleOutcome == [u \in Units |-> "Idle"]

NoCalls == [u \in Units |-> 0]

NoResults == [u \in Units |-> NoResult]

\* op: the callback; arg, target: its input; status: "ok" when its
\* transaction was applied, "fatal" when an exception ended it, "unapplied"
\* when it returned without applying; change_set: the resolved targets;
\* outcome, calls, result: per (sub)service, the state it ended in, the
\* executor invocations made for it and what the executor answered
\* request: the activity a scheduler call was made for
NoLast ==
    [op |-> "none", arg |-> "", target |-> "", status |-> "ok",
     dry_run |-> FALSE, change_set |-> {}, outcome |-> IdleOutcome,
     calls |-> NoCalls, result |-> NoResults, output |-> {},
     request |-> NoRequest]

\* the state of a running batch: the write transaction's view of the list,
\* the output set, and the record of what was done to each (sub)service
BatchStart(list, output) ==
    [list |-> list, output |-> output, outcome |-> IdleOutcome,
     calls |-> NoCalls, result |-> NoResults, aborted |-> FALSE]

\* all iteration orders of a set (a Python set iterates in arbitrary order)
Orders(S) ==
    {o \in [1..Cardinality(S) -> S] : \A i, j \in DOMAIN o : o[i] = o[j] => i = j}

\* the keys reached before services[to_change] raises KeyError
RECURSIVE known_prefix(_, _)
known_prefix(order, list) ==
    IF order = <<>> \/ Head(order) \notin DOMAIN list
    THEN {}
    ELSE {Head(order)} \cup known_prefix(Tail(order), list)

\* the target expressions the callers of the model use
TargetInputs ==
    {NoTargets, TargetAll, TargetAllExcept(<<"A">>), TargetKeypath(<<"A">>),
     TargetKeypath(<<"B", UnknownKey>>),
     TargetSubset({"redeploy-ready"}, <<>>)}

\* the distinct change sets build_service_set gives for them
ChangeSets == {service_set(t, services) : t \in TargetInputs}

Uninitialized == build_service_set(NoTargets).error

\* the end of a callback with the writes of the transaction reaching the
\* list one by one, so that an exception leaves the earlier ones behind
Finish_keeps_writes(op, dry_run, change_set, st) ==
    /\ services' = st.list
    /\ last' = [NoLast EXCEPT
                  !.op = op, !.status = IF st.aborted THEN "fatal" ELSE "ok",
                  !.dry_run = dry_run, !.change_set = change_set,
                  !.outcome = st.outcome, !.calls = st.calls,
                  !.result = st.result, !.output = st.output]

\* the end of a callback: transaction.apply(), or the exception
Finish(op, dry_run, change_set, st) ==
    /\ services' = IF st.aborted THEN services ELSE st.list
    /\ last' = [NoLast EXCEPT
                  !.op = op, !.status = IF st.aborted THEN "fatal" ELSE "ok",
                  !.dry_run = dry_run, !.change_set = change_set,
                  !.outcome = st.outcome, !.calls = st.calls,
                  !.result = st.result, !.output = st.output]

Fatal(op, dry_run) ==
    /\ services' = services
    /\ last' = [NoLast EXCEPT !.op = op, !.status = "fatal", !.dry_run = dry_run]

Tick ==
    /\ now < MaxTime
    /\ now' = now + 1

----------------------------------------------------------------------------
(* RedeployTopLevel.cb_action *)

\* a top-level redeploy that starts the modified services of the service
\* afresh
top_level_step_resets_sublayers(st, to_change, commit_flags, results, time_now) ==
    LET service == st.list[to_change] IN
    IF ~able_to_redeploy(commit_flags.dry_run, service, "RedeployTopLevel")
    THEN [st EXCEPT !.list[to_change] = mark_skipped(service, NotReadyTop),
                    !.output = @ \cup {NotReadyNote},
                    !.outcome[to_change] = "Skipped"]
    ELSE LET result == results[to_change]
             done == redeploy(service, commit_flags, result,
                              GivenDiffs(approved_diffs), time_now)
         IN
         [st EXCEPT !.list[to_change] =
                        [done EXCEPT !.modified_services =
                            [m \in DOMAIN @ |-> NewEntry]],
                    !.output = @ \cup redeploy_note(result),
                    !.outcome[to_change] = redeploy_outcome(commit_flags, result),
                    !.calls[to_change] = @ + 1,
                    !.result[to_change] = result]

top_level_step(st, to_change, commit_flags, results, time_now) ==
    LET service == st.list[to_change] IN
    IF ~able_to_redeploy(commit_flags.dry_run, service, "RedeployTopLevel")
    THEN [st EXCEPT !.list[to_change] = mark_skipped(service, NotReadyTop),
                    !.output = @ \cup {NotReadyNote},
                    !.outcome[to_change] = "Skipped"]
    ELSE LET result == results[to_change] IN
         [st EXCEPT !.list[to_change] =
                        redeploy(service, commit_flags, result,
                                 GivenDiffs(approved_diffs), time_now),
                    !.output = @ \cup redeploy_note(result),
                    !.outcome[to_change] = redeploy_outcome(commit_flags, result),
                    !.calls[to_change] = @ + 1,
                    !.result[to_change] = result]

RECURSIVE top_level_loop(_, _, _, _, _)
top_level_loop(st, order, commit_flags, results, time_now) ==
    IF order = <<>>
    THEN st
    ELSE IF Head(order) \notin DOMAIN st.list
         THEN [st EXCEPT !.aborted = TRUE]
         ELSE top_level_loop(
                  top_level_step(st, Head(order), commit_flags, results, time_now),
                  Tail(order), commit_flags, results, time_now)

\* the services the loop hands to the executor
top_level_executed(order, dry_run) ==
    {k \in known_prefix(order, services) :
       able_to_redeploy(dry_run, services[k], "RedeployTopLevel")}

\* every way the batch can end: iteration orders and executor answers
top_level_runs(change_set, commit_flags) ==
    UNION {{top_level_loop(BatchStart(services, {CalledNote, SeeNote}),
                           order, commit_flags, results, now) :
              results \in [top_level_executed(order, commit_flags.dry_run)
                             -> ExecResults(commit_flags.dry_run)]} :
             order \in Orders(change_set)}

RedeployTopLevel(dry_run, no_networking) ==
    /\ Tick
    /\ UNCHANGED <<approved_diffs, wildcard, pending, tasks>>
    /\ LET commit_flags == [dry_run |-> dry_run, no_networking |-> no_networking,
                            reconcile |-> FALSE]
       IN  IF Uninitialized
           THEN Fatal("redeploy-top-level", dry_run)
           ELSE \E change_set \in ChangeSets :
                \E st \in top_level_runs(change_set, commit_flags) :
                   Finish("redeploy-top-level", dry_run, change_set, st)

----------------------------------------------------------------------------
(* ReconcileSublayers.cb_action *)

\* a reconcile commit that consumes the redeploy-ready of the parent, as the
\* top-level commit does with the service's own
modified_step_consumes_parent(st, to_change, modified, commit_flags, results, time_now) ==
    LET service == st.list[to_change]
        modified_service == service.modified_services[modified]
    IN
    IF ~able_to_redeploy(commit_flags.dry_run, service, "ReconcileSublayers")
    THEN [st EXCEPT
            !.list[to_change].modified_services[modified] =
                mark_skipped(modified_service, NotReadySub),
            !.output = @ \cup {NotReadyNote},
            !.outcome[modified] = "Skipped"]
    ELSE LET result == results[modified] IN
         [st EXCEPT
            !.list[to_change].modified_services[modified] =
                redeploy(modified_service, commit_flags, result, NoneDiffs,
                         time_now),
            !.list[to_change].redeploy_ready =
                IF commit_flags.dry_run \/ result.error THEN @ ELSE FALSE,
            !.output = @ \cup redeploy_note(result),
            !.outcome[modified] = redeploy_outcome(commit_flags, result),
            !.calls[modified] = @ + 1,
            !.result[modified] = result]

modified_step(st, to_change, modified, commit_flags, results, time_now) ==
    LET service == st.list[to_change]
        modified_service == service.modified_services[modified]
    IN
    IF ~able_to_redeploy(commit_flags.dry_run, service, "ReconcileSublayers")
    THEN [st EXCEPT
            !.list[to_change].modified_services[modified] =
                mark_skipped(modified_service, NotReadySub),
            !.output = @ \cup {NotReadyNote},
            !.outcome[modified] = "Skipped"]
    ELSE LET result == results[modified] IN
         [st EXCEPT
            !.list[to_change].modified_services[modified] =
                redeploy(modified_service, commit_flags, result, NoneDiffs,
                         time_now),
            !.output = @ \cup redeploy_note(result),
            !.outcome[modified] = redeploy_outcome(commit_flags, result),
            !.calls[modified] = @ + 1,
            !.result[modified] = result]

\* for modified_service in service.modified_services
RECURSIVE modified_loop(_, _, _, _, _, _)
modified_loop(st, to_change, todo, commit_flags, results, time_now) ==
    IF todo = {}
    THEN st
    ELSE LET modified == CHOOSE m \in todo : TRUE IN
         modified_loop(
             modified_step(st, to_change, modified, commit_flags, results,
                           time_now),
             to_change, todo \ {modified}, commit_flags, results, time_now)

RECURSIVE reconcile_loop(_, _, _, _, _)
reconcile_loop(st, order, commit_flags, results, time_now) ==
    IF order = <<>>
    THEN st
    ELSE IF Head(order) \notin DOMAIN st.list
         THEN [st EXCEPT !.aborted = TRUE]
         ELSE reconcile_loop(
                  modified_loop(st, Head(order),
                                DOMAIN st.list[Head(order)].modified_services,
                                commit_flags, results, time_now),
                  Tail(order), commit_flags, results, time_now)

reconcile_executed(order, dry_run) ==
    UNION {IF able_to_redeploy(dry_run, services[k], "ReconcileSublayers")
           THEN DOMAIN services[k].modified_services
           ELSE {} : k \in known_prefix(order, services)}

reconcile_runs(change_set, commit_flags) ==
    UNION {{reconcile_loop(BatchStart(services, {CalledNote}),
                           order, commit_flags, results, now) :
              results \in [reconcile_executed(order, commit_flags.dry_run)
                             -> ExecResults(commit_flags.dry_run)]} :
             order \in Orders(change_set)}

ReconcileSublayers(dry_run, no_networking) ==
    /\ Tick
    /\ UNCHANGED <<approved_diffs, wildcard, pending, tasks>>
    /\ LET commit_flags == [dry_run |-> dry_run, no_networking |-> no_networking,
                            reconcile |-> TRUE]
       IN  IF Uninitialized
           THEN Fatal("reconcile-sublayers", dry_run)
           ELSE \E change_set \in ChangeSets :
                \E st \in reconcile_runs(change_set, commit_flags) :
                   Finish("reconcile-sublayers", dry_run, change_set, st)

----------------------------------------------------------------------------
(* A batch callback taken apart at its transactions *)

NoPending ==
    [active |-> FALSE, op |-> "none", dry_run |-> FALSE, targets |-> NoTargets,
     change_set |-> {}]

\* change_set = build_service_set(action_input): a read transaction of its
\* own, ended before the write transaction is started
ResolveTargets(op, dry_run, targets) ==
    /\ ~pending.active
    /\ Tick
    /\ UNCHANGED <<approved_diffs, wildcard, tasks>>
    /\ IF build_service_set(targets).error
       THEN /\ Fatal(op, dry_run)
            /\ pending' = pending
       ELSE /\ pending' = [active |-> TRUE, op |-> op, dry_run |-> dry_run,
                           targets |-> targets,
                           change_set |-> build_service_set(targets).keys]
            /\ UNCHANGED <<services, last>>

\* the write transaction: the loop over change_set and transaction.apply()
ProcessResolved ==
    /\ pending.active
    /\ Tick
    /\ UNCHANGED <<approved_diffs, wildcard, tasks>>
    /\ pending' = NoPending
    /\ LET commit_flags ==
               [dry_run |-> pending.dry_run, no_networking |-> FALSE,
                reconcile |-> pending.op = "reconcile-sublayers"]
       IN  \E st \in IF pending.op = "redeploy-top-level"
                     THEN top_level_runs(pending.change_set, commit_flags)
                     ELSE reconcile_runs(pending.change_set, commit_flags) :
              Finish(pending.op, pending.dry_run, pending.change_set, st)

----------------------------------------------------------------------------
(* ServiceList.populate *)

Populate ==
    /\ Tick
    /\ services' =
         [k \in Keys \cup DOMAIN services |->
            IF k \in DOMAIN services
            THEN [services[k] EXCEPT !.modified_services =
                    [m \in ModifiedOf(k) \cup DOMAIN @ |->
                       IF m \in DOMAIN @ THEN @[m] ELSE NewEntry]]
            ELSE NewService(k)]
    /\ last' = [NoLast EXCEPT !.op = "populate"]
    /\ UNCHANGED <<approved_diffs, wildcard, pending, tasks>>

----------------------------------------------------------------------------
(* ServiceList.clear *)

\* del services[to_clear] of a key that is not in the list: maagic either
\* raises or ignores it (raises = TRUE: the transaction is abandoned)
Clear(raises) ==
    /\ Tick
    /\ UNCHANGED <<approved_diffs, wildcard, pending, tasks>>
    /\ IF Uninitialized
       THEN Fatal("clear", FALSE)
       ELSE \E clear_set \in ChangeSets :
              IF Cardinality(clear_set) = Cardinality(DOMAIN services)
              THEN \* the whole list is deleted, and the function returns
                   \* before transaction.apply()
                   /\ services' = services
                   /\ last' = [NoLast EXCEPT !.op = "clear",
                                             !.status = "unapplied",
                                             !.change_set = clear_set]
              ELSE IF raises /\ ~(clear_set \subseteq DOMAIN services)
                   THEN /\ services' = services
                        /\ last' = [NoLast EXCEPT !.op = "clear",
                                                  !.status = "fatal",
                                                  !.change_set = clear_set]
                   ELSE /\ services' =
                             [k \in DOMAIN services \ clear_set |-> services[k]]
                        /\ last' = [NoLast EXCEPT !.op = "clear",
                                                  !.change_set = clear_set]

----------------------------------------------------------------------------
(* BulkServiceActionServiceListService.cb_create *)

SettingsChanged ==
    /\ Tick
    /\ services' = [k \in {} |-> NewEntry]
    /\ last' = [NoLast EXCEPT !.op = "settings-changed"]
    /\ UNCHANGED <<approved_diffs, wildcard, pending, tasks>>

----------------------------------------------------------------------------
(* The wildcard list of the settings, as parse_dry_run finds it *)

\* an operator commits another list of wildcards under
\* settings/diff-checking; the list and the approved diffs stay as they are
WildcardsChanged(table) ==
    /\ Tick
    /\ table # wildcard
    /\ wildcard' = table
    /\ last' = [NoLast EXCEPT !.op = "wildcards-changed"]
    /\ UNCHANGED <<services, approved_diffs, pending, tasks>>

----------------------------------------------------------------------------
(* ServiceListTools.cb_action *)

NoReadyInput == [present |-> FALSE, operation |-> "", change_set |-> {}]

NoWildcardInput == [present |-> FALSE, operation |-> ""]

NoApprovalInput ==
    [present |-> FALSE, approve_diff |-> "", check_approvals |-> FALSE]

NoToolInput ==
    [redeploy_ready |-> NoReadyInput, wildcards |-> NoWildcardInput,
     diff_approval |-> NoApprovalInput]

ReadyInput(operation, change_set) ==
    [NoToolInput EXCEPT !.redeploy_ready =
        [present |-> TRUE, operation |-> operation, change_set |-> change_set]]

WildcardInput(operation) ==
    [NoToolInput EXCEPT !.wildcards =
        [present |-> TRUE, operation |-> operation]]

ApprovalInput(approve_diff, check_approvals) ==
    [NoToolInput EXCEPT !.diff_approval =
        [present |-> TRUE, approve_diff |-> approve_diff,
         check_approvals |-> check_approvals]]

\* the transaction's view: the list, the approved diffs, and whether an
\* exception has ended the callback
ToolStart == [list |-> services, diffs |-> approved_diffs, aborted |-> FALSE]

tool_redeploy_ready(st, inputs) ==
    IF st.aborted \/ ~inputs.present THEN st
    ELSE IF Uninitialized \/ ~(inputs.change_set \subseteq DOMAIN st.list)
         THEN [st EXCEPT !.aborted = TRUE]
         ELSE [st EXCEPT !.list =
                 [k \in DOMAIN st.list |->
                    IF k \in inputs.change_set
                    THEN [st.list[k] EXCEPT
                            !.redeploy_ready = (inputs.operation = "add")]
                    ELSE st.list[k]]]

HasOutput(list) ==
    \E k \in DOMAIN list : DOMAIN list[k].dry_run.output # {}

\* a rollback that, discarding the normalization, empties the approved diffs
tool_wildcards_rollback_forgets(st, inputs) ==
    IF st.aborted \/ ~inputs.present THEN st
    ELSE IF inputs.operation = "update"
         THEN [st EXCEPT
                 !.diffs = @ \cup {parse_dry_run(diff) : diff \in @},
                 !.list = [k \in DOMAIN st.list |->
                             [st.list[k] EXCEPT !.dry_run.output =
                                [d \in DOMAIN @ |-> parse_dry_run(@[d])]]]]
         ELSE [st EXCEPT !.diffs = {}]

tool_wildcards(st, inputs) ==
    IF st.aborted \/ ~inputs.present THEN st
    ELSE IF inputs.operation = "update"
         THEN [st EXCEPT
                 !.diffs = @ \cup {parse_dry_run(diff) : diff \in @},
                 !.list = [k \in DOMAIN st.list |->
                             [st.list[k] EXCEPT !.dry_run.output =
                                [d \in DOMAIN @ |-> parse_dry_run(@[d])]]]]
         ELSE IF inputs.operation = "rollback" /\ HasOutput(st.list)
              THEN \* dry_run.unaltered_output[device.device]: nothing ever
                   \* creates an unaltered-output entry, so this is a KeyError
                   [st EXCEPT !.aborted = TRUE]
              ELSE st

\* the cross-check with any() in the place of all()
AllApproved_any(service, diffs) ==
    \E d \in DOMAIN service.dry_run.output :
        service.dry_run.output[d] \in diffs

AllApproved(service, diffs) ==
    \A d \in DOMAIN service.dry_run.output :
        service.dry_run.output[d] \in diffs

\* _diff_approval creating the approved diff from device.output as it is
\* stored, without parse_dry_run
tool_diff_approval_unparsed(st, inputs) ==
    IF st.aborted \/ ~inputs.present THEN st
    ELSE LET target == inputs.approve_diff
             unknown == target # "" /\ target \notin DOMAIN st.list
             diffs == IF target = "" \/ unknown
                      THEN st.diffs
                      ELSE st.diffs \cup
                           {st.list[target].dry_run.output[d] :
                              d \in DOMAIN st.list[target].dry_run.output}
         IN  IF unknown
             THEN [st EXCEPT !.aborted = TRUE]
             ELSE [st EXCEPT
                     !.diffs = diffs,
                     !.list =
                        IF ~inputs.check_approvals THEN @
                        ELSE [k \in DOMAIN @ |->
                                IF /\ Cardinality(DOMAIN @[k].dry_run.output) > 0
                                   /\ AllApproved(@[k], diffs)
                                THEN [@[k] EXCEPT !.redeploy_ready = TRUE]
                                ELSE @[k]]]

tool_diff_approval(st, inputs) ==
    IF st.aborted \/ ~inputs.present THEN st
    ELSE LET target == inputs.approve_diff
             unknown == target # "" /\ target \notin DOMAIN st.list
             diffs == IF target = "" \/ unknown
                      THEN st.diffs
                      ELSE st.diffs \cup
                           {parse_dry_run(st.list[target].dry_run.output[d]) :
                              d \in DOMAIN st.list[target].dry_run.output}
         IN  IF unknown
             THEN [st EXCEPT !.aborted = TRUE]
             ELSE [st EXCEPT
                     !.diffs = diffs,
                     !.list =
                        IF ~inputs.check_approvals THEN @
                        ELSE [k \in DOMAIN @ |->
                                IF /\ Cardinality(DOMAIN @[k].dry_run.output) > 0
                                   /\ AllApproved(@[k], diffs)
                                THEN [@[k] EXCEPT !.redeploy_ready = TRUE]
                                ELSE @[k]]]

service_list_tools(action_input) ==
    tool_diff_approval(
        tool_wildcards(
            tool_redeploy_ready(ToolStart, action_input.redeploy_ready),
            action_input.wildcards),
        action_input.diff_approval)

ToolArg(action_input) ==
    IF action_input.redeploy_ready.present
    THEN action_input.redeploy_ready.operation
    ELSE IF action_input.wildcards.present
         THEN action_input.wildcards.operation
         ELSE IF action_input.diff_approval.approve_diff = "" THEN "check"
              ELSE IF action_input.diff_approval.check_approvals
                   THEN "approve+check"
                   ELSE "approve"

\* the inputs the callers of the model use: one container at a time, as
\* bsa_controller.py sends them, and an approval with both of its leaves
ToolInputs ==
    {ReadyInput(operation, change_set) :
        operation \in {"add", "remove"}, change_set \in ChangeSets}
    \cup {WildcardInput("update"), WildcardInput("rollback")}
    \cup {ApprovalInput(target, FALSE) : target \in Keys \cup {UnknownKey}}
    \cup {ApprovalInput("", TRUE), ApprovalInput("A", TRUE)}

ServiceListTools(action_input) ==
    /\ Tick
    /\ UNCHANGED <<wildcard, pending, tasks>>
    /\ LET st == service_list_tools(action_input) IN
       /\ services' = IF st.aborted THEN services ELSE st.list
       /\ approved_diffs' = IF st.aborted THEN approved_diffs ELSE st.diffs
       /\ last' = [NoLast EXCEPT
                     !.op = "service-list-tools",
                     !.arg = ToolArg(action_input),
                     !.target = action_input.diff_approval.approve_diff,
                     !.change_set = action_input.redeploy_ready.change_set,
                     !.status = IF st.aborted THEN "fatal" ELSE "ok"]

----------------------------------------------------------------------------

Init ==
    /\ services = [k \in {} |-> NewEntry]
    /\ approved_diffs = {}
    /\ wildcard \in WildcardTables
    /\ now = 1
    /\ pending = NoPending
    /\ tasks = NoTasks
    /\ last = NoLast

Next ==
    \/ Populate
    \/ \E raises \in BOOLEAN : Clear(raises)
    \/ SettingsChanged
    \/ \E dry_run \in BOOLEAN : RedeployTopLevel(dry_run, FALSE)
    \/ \E dry_run \in BOOLEAN : ReconcileSublayers(dry_run, FALSE)
    \/ \E action_input \in ToolInputs : ServiceListTools(action_input)
    \/ \E table \in WildcardTables : WildcardsChanged(table)

Spec == Init /\ [][Next]_vars

\* the callbacks of several sessions side by side: a batch is two steps,
\* build_service_set in its read transaction and then the write transaction,
\* and the other callbacks may run between the two
NextInterleaved ==
    \/ Populate
    \/ \E raises \in BOOLEAN : Clear(raises)
    \/ SettingsChanged
    \/ \E action_input \in ToolInputs : ServiceListTools(action_input)
    \/ \E table \in WildcardTables : WildcardsChanged(table)
    \/ \E op \in {"redeploy-top-level", "reconcile-sublayers"} :
       \E dry_run \in BOOLEAN : \E targets \in TargetInputs :
          ResolveTargets(op, dry_run, targets)
    \/ ProcessResolved

SpecInterleaved == Init /\ [][NextInterleaved]_vars

----------------------------------------------------------------------------
(* build_service_set on its own: the lists and target expressions it meets *)

\* the dry-run records and redeployed-at values an entry can have (a
\* dry-run record and redeployed-at never together)
ResolverProgress ==
    {[dry_run |-> NoDryRun, redeployed_at |-> NoTime],
     [dry_run |-> NoDryRun, redeployed_at |-> 1],
     [dry_run |-> [present |-> TRUE, fetched_at |-> 1, output |-> EmptyOutput],
      redeployed_at |-> NoTime],
     [dry_run |-> [present |-> TRUE, fetched_at |-> 1,
                   output |-> [d \in {"d1"} |-> <<"a", "1">>]],
      redeployed_at |-> NoTime]}

ResolverRecords(key) ==
    {[NewService(key) EXCEPT !.dry_run = p.dry_run,
                             !.redeployed_at = p.redeployed_at,
                             !.redeploy_ready = ready,
                             !.last_redeploy_error = error] :
       p \in ResolverProgress, ready \in BOOLEAN,
       error \in {NoError, ExecError}}

\* the empty list, and every list of one or two services
ResolverLists ==
    UNION {{list \in [keys -> UNION {ResolverRecords(k) : k \in keys}] :
              \A k \in keys : list[k] \in ResolverRecords(k)} :
             keys \in SUBSET Keys}

\* the values of targets/keypath: up to two keys, known or not, a key
\* possibly given twice
KeyLists ==
    UNION {[1..n -> Keys \cup {UnknownKey}] : n \in 0..2}

ResolverInputs ==
    {NoTargets}
    \cup {TargetAllExcept(keys) : keys \in KeyLists}
    \cup {TargetKeypath(keys) : keys \in KeyLists}
    \cup {TargetSubset(flags, keys) :
            flags \in SUBSET SubsetFlags, keys \in {<<>>, <<"A">>}}

\* one call of build_service_set: the set it returns is kept in pending,
\* its AttributeError in last
BuildServiceSet(targets) ==
    /\ IF build_service_set(targets).error
       THEN /\ pending' = [NoPending EXCEPT !.op = "build-service-set",
                                            !.targets = targets]
            /\ last' = [NoLast EXCEPT !.op = "build-service-set",
                                      !.status = "fatal"]
       ELSE /\ pending' = [active |-> TRUE, op |-> "build-service-set",
                           dry_run |-> FALSE, targets |-> targets,
                           change_set |-> build_service_set(targets).keys]
            /\ last' = [NoLast EXCEPT !.op = "build-service-set"]
    /\ UNCHANGED <<services, approved_diffs, wildcard, now, tasks>>

InitResolve ==
    /\ services \in ResolverLists
    /\ approved_diffs = {}
    /\ wildcard = <<>>
    /\ now = 1
    /\ pending = NoPending
    /\ tasks = NoTasks
    /\ last = NoLast

NextResolve == \E targets \in ResolverInputs : BuildServiceSet(targets)

SpecResolve == InitResolve /\ [][NextResolve]_vars

----------------------------------------------------------------------------
(* BulkServiceActionScheduler.cb_create *)

\* datetime.timedelta(hours, minutes), in seconds
in_time_delta(in_time) == in_time.hours * 3600 + in_time.minutes * 60

\* at-time as it is given; in-time, when given, decides
schedule_time(request, time_now) ==
    IF request.in_time.given
    THEN time_now + in_time_delta(request.in_time)
    ELSE request.at_time.time

\* the name of a task: the action and the key it is for
TaskName(action_name, to_schedule) ==
    <<"bulk-service-action-scheduler", action_name, to_schedule>>

\* the task with the places of the enumeration counted from 1
scheduler_task_from_one(request, to_schedule, index, time) ==
    [action_name |-> request.action_name,
     action_node |-> "/bulk-service-actions",
     keypath |-> <<to_schedule>>,
     dry_run |-> request.dry_run,
     no_networking |-> request.no_networking,
     time |-> time + (index + 1) * request.interval]

\* the task of the key at place index (from 0) of the enumeration
scheduler_task(request, to_schedule, index, time) ==
    [action_name |-> request.action_name,
     action_node |-> "/bulk-service-actions",
     keypath |-> <<to_schedule>>,
     dry_run |-> request.dry_run,
     no_networking |-> request.no_networking,
     time |-> time + index * request.interval]

\* for index, to_schedule in enumerate(build_service_set(service))
scheduler_tasks(request, order, time) ==
    [name \in {TaskName(request.action_name, order[i]) : i \in DOMAIN order} |->
       LET i == CHOOSE j \in DOMAIN order :
                   name = TaskName(request.action_name, order[j])
       IN  scheduler_task(request, order[i], i - 1, time)]

\* cb_create with the comparison of schedule_time and time_now left out
scheduler_raises_unless_past(request, time_now) ==
    \/ request.in_time.given /\ ~request.in_time.minutes_given
    \/ build_service_set(request.targets).error

\* the exceptions of cb_create: the assert on the in-time text, the
\* ValueError of a time in the past, the AttributeError of the empty list
scheduler_raises(request, time_now) ==
    \/ request.in_time.given /\ ~request.in_time.minutes_given
    \/ schedule_time(request, time_now) < time_now
    \/ build_service_set(request.targets).error

\* the activity is committed once; what cb_create writes is committed with
\* it, or not at all when cb_create raises
BulkServiceActionScheduler(request) ==
    /\ last.op = "none"
    /\ IF ~(request.at_time.given \/ request.in_time.given)
       THEN /\ tasks' = tasks
            /\ last' = [NoLast EXCEPT !.op = "scheduler", !.request = request]
       ELSE IF scheduler_raises(request, now)
            THEN /\ tasks' = tasks
                 /\ last' = [NoLast EXCEPT !.op = "scheduler",
                                           !.status = "fatal",
                                           !.request = request]
            ELSE LET change_set == build_service_set(request.targets).keys IN
                 \E order \in Orders(change_set) :
                    /\ tasks' = scheduler_tasks(request, order,
                                                schedule_time(request, now))
                    /\ last' = [NoLast EXCEPT !.op = "scheduler",
                                              !.request = request,
                                              !.dry_run = request.dry_run,
                                              !.change_set = change_set]
    /\ UNCHANGED <<services, approved_diffs, wildcard, now, pending>>

\* the lists an activity meets: none, a new one, one with A redeploy-ready
SchedulerLists ==
    {[k \in {} |-> NewEntry],
     [k \in Keys |-> NewService(k)],
     [k \in Keys |-> [NewService(k) EXCEPT !.redeploy_ready = (k = "A")]]}

\* schedule: nothing, at-time around the clock, in-time, and both
Schedules ==
    {<<NoAtTime, NoInTime>>}
    \cup {<<AtTime(time), NoInTime>> : time \in 0..(MaxTime + 1)}
    \cup {<<NoAtTime, InTime(0, 1)>>, <<NoAtTime, InTime(1, 0)>>,
          <<NoAtTime, InHours(1)>>, <<AtTime(0), InTime(0, 1)>>}

SchedulerTargets ==
    TargetInputs
    \cup {TargetKeypath(<<"A", "B", UnknownKey>>),
          TargetSubset({"redeploy-ready"}, <<"A">>)}

Intervals == {30, 45}

Activity(action_name, schedule, interval, targets, dry_run) ==
    [action_name |-> action_name, at_time |-> schedule[1],
     in_time |-> schedule[2], interval |-> interval, targets |-> targets,
     dry_run |-> dry_run, no_networking |-> FALSE]

Activities ==
    {Activity(action_name, schedule, interval, targets, dry_run) :
        action_name \in {"redeploy-top-level", "reconcile-sublayers"},
        schedule \in Schedules, interval \in Intervals,
        targets \in SchedulerTargets, dry_run \in BOOLEAN}

InitSchedule ==
    /\ services \in SchedulerLists
    /\ approved_diffs = {}
    /\ wildcard = <<>>
    /\ now \in 1..MaxTime
    /\ pending = NoPending
    /\ tasks = NoTasks
    /\ last = NoLast

NextSchedule == \E request \in Activities : BulkServiceActionScheduler(request)

SpecSchedule == InitSchedule /\ [][NextSchedule]_vars

----------------------------------------------------------------------------
(* The tools on a list that earlier dry-runs and approvals have filled *)

\* what a dry-run stored for d1, without and with the digit masked
StoredTexts == {<<"a", "1">>, <<"a", "*WILDCARD", "1", "*">>}

\* no dry-run record, or one of an earlier moment with one device output
StoredDryRuns ==
    {NoDryRun}
    \cup {[present |-> TRUE, fetched_at |-> 1,
           output |-> [d \in {"d1"} |-> text]] : text \in StoredTexts}

\* A and its modified service A1 with or without a dry-run record, B new
ToolLists ==
    {[k \in Keys |->
        IF k = "A"
        THEN [NewService(k) EXCEPT
                !.dry_run = top,
                !.modified_services["A1"].dry_run = modified]
        ELSE NewService(k)] :
       top \in StoredDryRuns, modified \in StoredDryRuns}

\* the list, the approved diffs and the wildcards as dry-runs, approvals
\* and changes of the settings have left them
InitTools ==
    /\ services \in ToolLists
    /\ approved_diffs \in SUBSET StoredTexts
    /\ wildcard \in WildcardTables
    /\ now = 2
    /\ pending = NoPending
    /\ tasks = NoTasks
    /\ last = NoLast

NextTools ==
    \/ \E action_input \in ToolInputs : ServiceListTools(action_input)
    \/ \E table \in WildcardTables : WildcardsChanged(table)

SpecTools == InitTools /\ [][NextTools]_vars

----------------------------------------------------------------------------
(* parse_dry_run on the texts and the wildcards of bounded sets, applied  *)
(* by the wildcard update to the output a dry-run stored                  *)

MaxTextLen == 3

TextChars == {"a", "1", "2"}

\* the native outputs a device may return
NormalizeTexts ==
    UNION {[1..n -> TextChars] : n \in 1..MaxTextLen}

Letter == <<{"a"}>>

LetterDigit == <<{"a"}, {"1", "2"}>>

MaxTableLen == 2

\* the wildcard lists of the settings
NormalizeTables ==
    UNION {[1..n -> {Digit, Letter, LetterDigit}] : n \in 0..MaxTableLen}

\* A holds the dry-run output of one device, B is new
NormalizeLists ==
    {[k \in Keys |->
        IF k = "A"
        THEN [NewService(k) EXCEPT
                !.dry_run = [present |-> TRUE, fetched_at |-> 1,
                             output |-> [d \in {"d1"} |-> text]]]
        ELSE NewService(k)] : text \in NormalizeTexts}

InitNormalize ==
    /\ services \in NormalizeLists
    /\ approved_diffs = {}
    /\ wildcard \in NormalizeTables
    /\ now = 1
    /\ pending = NoPending
    /\ tasks = NoTasks
    /\ last = NoLast

NextNormalize == ServiceListTools(WildcardInput("update"))

SpecNormalize == InitNormalize /\ [][NextNormalize]_vars

----------------------------------------------------------------------------
(* Reading the list and the history in the properties below *)

BatchOps == {"redeploy-top-level", "reconcile-sublayers"}

\* the top-level service a (sub)service belongs to
TopOf(u) == IF u \in Keys THEN u ELSE CHOOSE k \in Keys : u \in ModifiedOf(k)

\* the list entry of a (sub)service
Entry(list, u) ==
    IF u \in Keys THEN list[u] ELSE list[TopOf(u)].modified_services[u]

\* the (sub)services a batch over change_set goes through
UnitsOf(op, change_set) ==
    IF op = "redeploy-top-level"
    THEN change_set \cap Keys
    ELSE UNION {ModifiedOf(k) : k \in change_set \cap Keys}

Executed(h, u) == h.outcome[u] \in {"DryRunSucceeded", "CommitSucceeded", "Failed"}

Applied(h) == h.op \in BatchOps /\ h.status = "ok"

----------------------------------------------------------------------------
(* C1 -- eligibility *)

\* the record whose flags decide: the (sub)service's own
EligibleByOwnRecord(h, list, u) ==
    \/ h.dry_run
    \/ Entry(list, u).redeploy_ready
    \/ h.op = "reconcile-sublayers" /\ Entry(list, u).redeployed_at # NoTime

\* the record whose flags decide: the top-level service's
EligibleByTopRecord(h, list, u) ==
    \/ h.dry_run
    \/ list[TopOf(u)].redeploy_ready
    \/ h.op = "reconcile-sublayers" /\ list[TopOf(u)].redeployed_at # NoTime

\* C1 as stated: a (sub)service a batch reaches is handed to the executor
\* iff the request is a dry-run, or its own record has redeploy-ready, or
\* the caller is ReconcileSublayers and its own record has redeployed-at.
C1_OwnRecordDecides ==
    [][\A u \in Units :
         (last'.op \in BatchOps /\ last'.outcome[u] # "Idle") =>
            (Executed(last', u) <=> EligibleByOwnRecord(last', services, u))]_vars

\* C1 amended: a (sub)service a batch reaches is handed to the executor iff
\* the request is a dry-run, or the record of its top-level service (for a
\* top-level service its own record, for a modified service its parent's)
\* has redeploy-ready, or the caller is ReconcileSublayers and that record
\* has redeployed-at; so RedeployTopLevel never invokes the executor with
\* dry-run false on a service whose redeploy-ready is unset.
C1_TopRecordDecides ==
    [][\A u \in Units :
         /\ (last'.op \in BatchOps /\ last'.outcome[u] # "Idle") =>
               (Executed(last', u) <=> EligibleByTopRecord(last', services, u))
         /\ (last'.op = "redeploy-top-level" /\ ~last'.dry_run
               /\ last'.calls[u] > 0) => services[u].redeploy_ready]_vars

\* a reconcile commit that ran a modified service on the strength of its
\* parent's redeployed-at and skipped nothing of it
C1_Witness ==
    /\ last.op = "reconcile-sublayers" /\ ~last.dry_run
    /\ last.outcome["A1"] = "CommitSucceeded"
    /\ ~services["A"].redeploy_ready
    /\ services["A"].redeployed_at # NoTime

----------------------------------------------------------------------------
(* C2 -- a failed executor call *)

\* C2: when the executor call for a (sub)service fails, redeployed-at,
\* redeploy-ready and dry-run of its entry are what they were before, and
\* the entry differs from before in last-redeploy-error alone, which holds
\* the error.
C2_FailureWritesOnlyError ==
    [][\A u \in Units :
         (last'.op \in BatchOps /\ last'.outcome[u] = "Failed") =>
            /\ Entry(services', u).redeployed_at = Entry(services, u).redeployed_at
            /\ Entry(services', u).redeploy_ready = Entry(services, u).redeploy_ready
            /\ Entry(services', u).dry_run = Entry(services, u).dry_run
            /\ last'.status = "ok" =>
                 Entry(services', u) =
                    [Entry(services, u) EXCEPT !.last_redeploy_error = ExecError]]_vars

\* a failed reconcile commit of a modified service that was redeploy-ready
C2_Witness ==
    /\ last.op = "reconcile-sublayers" /\ ~last.dry_run /\ last.status = "ok"
    /\ last.outcome["A1"] = "Failed"
    /\ Entry(services, "A1").redeploy_ready
    /\ Entry(services, "A1").dry_run.present
    /\ Entry(services, "A1").last_redeploy_error = ExecError

----------------------------------------------------------------------------
(* C3 -- a failure stays with its service *)

----------------------------------------------------------------------------
(* C4 -- a top-level dry-run without changed devices *)

\* C4 as stated: a successful dry-run of redeploy-top-level in which the
\* executor reports no changed device leaves the service redeploy-ready,
\* without redeployed-at, with a dry-run record of empty output and without
\* last-redeploy-error.
C4_EmptyTopLevelDryRunSetsReady ==
    \A k \in Keys :
      (/\ last.op = "redeploy-top-level" /\ last.status = "ok" /\ last.dry_run
       /\ last.outcome[k] = "DryRunSucceeded"
       /\ DOMAIN last.result[k].device = {}) =>
         /\ services[k].redeploy_ready
         /\ services[k].redeployed_at = NoTime
         /\ services[k].dry_run.present
         /\ DOMAIN services[k].dry_run.output = {}
         /\ services[k].last_redeploy_error = NoError

----------------------------------------------------------------------------
(* C5 -- what a dry-run leaves of earlier attempts *)

\* this dry-run itself establishes readiness
ReestablishesReady(h, u) ==
    \/ DOMAIN h.result[u].device = {}
    \/ \A d \in DOMAIN h.result[u].device :
         parse_dry_run(h.result[u].device[d]) \in approved_diffs

\* C5 as stated: after a successful dry-run of a (sub)service, reconcile or
\* not, the entry has no last-redeploy-error, and has redeploy-ready only
\* if this dry-run established it (no changed device, or all diffs approved).
C5_DryRunClearsStaleFlags ==
    \A u \in Units :
      (Applied(last) /\ last.outcome[u] = "DryRunSucceeded") =>
         /\ Entry(services, u).last_redeploy_error = NoError
         /\ Entry(services, u).redeploy_ready => ReestablishesReady(last, u)

----------------------------------------------------------------------------
(* C6 -- readiness from a reconcile dry-run *)

\* C6 as stated: a successful reconcile dry-run leaves the modified service
\* redeploy-ready iff the executor reported no changed device or the
\* normalized output of every changed device is in the approved diffs.
C6_ReconcileDryRunReadiness ==
    \A u \in SubKeys :
      (/\ last.op = "reconcile-sublayers" /\ last.status = "ok"
       /\ last.outcome[u] = "DryRunSucceeded") =>
         (Entry(services, u).redeploy_ready <=> ReestablishesReady(last, u))

----------------------------------------------------------------------------
(* C7 -- the dry-run record *)

\* C7: after a successful dry-run of a (sub)service, reconcile or not, the
\* entry has no redeployed-at, its dry-run record is stamped with the time
\* of the call and holds one output per device of this result and no other,
\* each the result's text with the wildcards substituted.
C7_DryRunReplacesRecord ==
    \A u \in Units :
      (Applied(last) /\ last.outcome[u] = "DryRunSucceeded") =>
         LET entry == Entry(services, u)
             device == last.result[u].device
         IN  /\ entry.redeployed_at = NoTime
             /\ entry.dry_run.present
             /\ entry.dry_run.fetched_at = now - 1
             /\ DOMAIN entry.dry_run.output = DOMAIN device
             /\ \A d \in DOMAIN device :
                  entry.dry_run.output[d] =
                     parse_dry_run_table(device[d], wildcard)

\* a dry-run that reported one device, whose digit the wildcard masks in
\* the stored output, for a service that has a last-redeploy-error from an
\* earlier attempt
C7_Witness ==
    /\ last.op = "redeploy-top-level" /\ last.status = "ok"
    /\ last.outcome["A"] = "DryRunSucceeded"
    /\ services["A"].last_redeploy_error # NoError
    /\ wildcard = <<Digit>>
    /\ DOMAIN last.result["A"].device = {"d1"}
    /\ services["A"].dry_run.output["d1"] = <<"a", "*WILDCARD", "1", "*">>

----------------------------------------------------------------------------
(* C8 -- a commit *)

\* C8: after a successful non-dry-run redeploy the entry has redeployed-at
\* (the time of the call), no last-redeploy-error and no dry-run record; a
\* top-level service (reconcile false) has no redeploy-ready, a modified
\* service (reconcile true) has the redeploy-ready it had before.
C8_CommitEffects ==
    [][\A u \in Units :
         (Applied(last') /\ last'.outcome[u] = "CommitSucceeded") =>
            LET entry == Entry(services', u) IN
            /\ entry.redeployed_at = now /\ entry.redeployed_at # NoTime
            /\ entry.last_redeploy_error = NoError
            /\ entry.dry_run = NoDryRun
            /\ last'.op = "redeploy-top-level" => ~entry.redeploy_ready
            /\ last'.op = "reconcile-sublayers" =>
                 entry.redeploy_ready = Entry(services, u).redeploy_ready]_vars

\* a reconcile commit of a modified service that keeps its redeploy-ready
C8_Witness ==
    /\ last.op = "reconcile-sublayers" /\ last.status = "ok"
    /\ last.outcome["A1"] = "CommitSucceeded"
    /\ Entry(services, "A1").redeploy_ready
    /\ Entry(services, "A1").redeployed_at # NoTime

----------------------------------------------------------------------------
(* C9 -- dry-run record and redeployed-at exclude each other *)

\* C9: no entry of the list, top-level or modified service, has both a
\* dry-run record and redeployed-at.
C9_DryRunExcludesRedeployedAt ==
    \A k \in DOMAIN services :
      /\ ~(services[k].dry_run.present /\ services[k].redeployed_at # NoTime)
      /\ \A m \in DOMAIN services[k].modified_services :
           LET entry == services[k].modified_services[m] IN
           ~(entry.dry_run.present /\ entry.redeployed_at # NoTime)

\* a service dry-run again after its commit, beside a committed one
C9_Witness ==
    /\ DOMAIN services = Keys
    /\ services["A"].dry_run.present
    /\ services["A"].dry_run.fetched_at = now - 1
    /\ last.outcome["A"] = "DryRunSucceeded"
    /\ services["B"].redeployed_at # NoTime

----------------------------------------------------------------------------
(* C10 -- an ineligible service *)

\* C10: for an ineligible (sub)service the executor is not invoked, its
\* entry changes in last-redeploy-error alone, which holds the explanatory
\* text, the output holds the not-ready note, and the batch goes on: every
\* other (sub)service of the resolved keys is gone through as well.
C10_IneligibleIsSkipped ==
    [][\A u \in Units :
         (Applied(last') /\ last'.outcome[u] = "Skipped") =>
            /\ last'.calls[u] = 0
            /\ Entry(services', u) =
                  [Entry(services, u) EXCEPT !.last_redeploy_error =
                     IF u \in Keys THEN NotReadyTop ELSE NotReadySub]
            /\ NotReadyNote \in last'.output
            /\ \A v \in UnitsOf(last'.op, last'.change_set) :
                 last'.outcome[v] # "Idle"]_vars

\* a top-level commit that skipped one service, with its dry-run record
\* kept, and committed the other
C10_Witness ==
    /\ last.op = "redeploy-top-level" /\ last.status = "ok" /\ ~last.dry_run
    /\ last.outcome["A"] = "Skipped"
    /\ last.outcome["B"] = "CommitSucceeded"
    /\ services["A"].dry_run.present
    /\ services["A"].last_redeploy_error = NotReadyTop

----------------------------------------------------------------------------
(* C11 -- a resolved key that is not in the list *)

\* the callback looked its targets up in the list: the two batches and the
\* redeploy-ready tool
LooksUpTargets(h) ==
    \/ h.op \in BatchOps
    \/ h.op = "service-list-tools" /\ h.arg \in {"add", "remove"}

\* C11 as stated: a bulk operation whose resolved set holds a key that is
\* not in the list does not fail, and goes through every other key of the
\* set: a batch reaches each of their (sub)services, the redeploy-ready
\* tool leaves the flag as asked on each of them.
C11_UnknownKeyIsSkipped ==
    [][(/\ LooksUpTargets(last')
        /\ DOMAIN services # {}
        /\ ~(last'.change_set \subseteq DOMAIN services)) =>
          /\ last'.status = "ok"
          /\ last'.op \in BatchOps =>
               \A u \in UnitsOf(last'.op, last'.change_set \cap DOMAIN services) :
                  last'.outcome[u] # "Idle"
          /\ last'.op = "service-list-tools" =>
               \A k \in last'.change_set \cap DOMAIN services :
                  services'[k].redeploy_ready = (last'.arg = "add")]_vars

----------------------------------------------------------------------------
(* C12 -- target resolution and the write transaction *)

\* C12 as stated: the key set a batch acts on is the one its target
\* expression gives on the list its write transaction reads and mutates; no
\* clear, populate or flag change of another invocation falls between.
C12_ResolvedInWriteTransaction ==
    [][(pending.active /\ ~pending'.active) =>
          pending.change_set = service_set(pending.targets, services)]_vars

----------------------------------------------------------------------------
(* C13 -- a callback that ends in an exception *)

\* C13: when a bulk invocation ends in a fatal condition (the list is
\* empty, a resolved or named key is not in the list, the wildcard rollback
\* finds no unaltered output), the list and the approved diffs are what they
\* were before the invocation: nothing it wrote is committed.
C13_FatalCommitsNothing ==
    [][last'.status = "fatal" =>
          /\ services' = services
          /\ approved_diffs' = approved_diffs]_vars

\* a top-level dry-run that recorded a dry-run for B in its transaction and
\* then met a key that is not in the list: B has no dry-run record
C13_Witness ==
    /\ last.op = "redeploy-top-level" /\ last.status = "fatal"
    /\ last.outcome["B"] = "DryRunSucceeded"
    /\ "B" \in DOMAIN services
    /\ ~services["B"].dry_run.present

----------------------------------------------------------------------------
(* C14 -- check-approvals *)

ToolDone(h, args) ==
    h.op = "service-list-tools" /\ h.status = "ok" /\ h.arg \in args

\* every device output of the dry-run record is one of the approved diffs
OutputsApproved(service, diffs) ==
    \A d \in DOMAIN service.dry_run.output :
        service.dry_run.output[d] \in diffs

\* C14: check-approvals sets redeploy-ready on a service of the list iff
\* its dry-run record has an output and every device output is one of the
\* approved diffs; every other service keeps the flag it had (one approved
\* and one unapproved device output do not bring the flag).
C14_CheckApprovals ==
    [][ToolDone(last', {"check", "approve+check"}) =>
          \A k \in DOMAIN services :
             services'[k].redeploy_ready =
                \/ services[k].redeploy_ready
                \/ /\ DOMAIN services[k].dry_run.output # {}
                   /\ OutputsApproved(services[k], approved_diffs')]_vars

\* a check that flagged B, whose one output is approved, and did not flag
\* A, which has one approved and one unapproved device output
C14_Witness ==
    /\ ToolDone(last, {"check"})
    /\ DOMAIN services = Keys
    /\ services["B"].redeploy_ready
    /\ ~services["A"].redeploy_ready
    /\ DOMAIN services["A"].dry_run.output = Devices
    /\ services["A"].dry_run.output["d1"] \in approved_diffs
    /\ services["A"].dry_run.output["d2"] \notin approved_diffs

----------------------------------------------------------------------------
(* C15 -- approve-diff *)

\* C15: approve-diff of a service adds to the approved diffs the output of
\* every device of the service's dry-run record, with the wildcards of the
\* settings substituted, and nothing else; with an empty output the approved
\* diffs are unchanged; no field of any list entry changes.
C15_ApproveDiff ==
    [][ToolDone(last', {"approve"}) =>
          LET output == services[last'.target].dry_run.output IN
          /\ approved_diffs' =
                approved_diffs \cup
                {parse_dry_run_table(output[d], wildcard) : d \in DOMAIN output}
          /\ DOMAIN output = {} => approved_diffs' = approved_diffs
          /\ services' = services]_vars

\* an approval of A after the wildcards were changed: the stored output
\* has the digit, the approved diff has the token in its place
C15_Witness ==
    /\ ToolDone(last, {"approve"}) /\ last.target = "A"
    /\ DOMAIN services["A"].dry_run.output = {"d1"}
    /\ services["A"].dry_run.output["d1"] = <<"a", "1">>
    /\ <<"a", "*WILDCARD", "1", "*">> \in approved_diffs
    /\ <<"a", "1">> \notin approved_diffs

----------------------------------------------------------------------------
(* C16 -- the redeploy-ready tool *)

\* the redeploy-ready tool was called (and completed or not)
ReadyToolCalled(h) == h.op = "service-list-tools" /\ h.arg \in {"add", "remove"}

\* C16 as stated: after the redeploy-ready tool with operation add every
\* resolved key has redeploy-ready, with operation remove no resolved key
\* has it (an entry without the flag is left as it is, without an error);
\* the entries of the other keys and every other field of the resolved ones
\* are unchanged.
C16_SetRedeployReady ==
    [][(ReadyToolCalled(last') /\ DOMAIN services # {}) =>
          /\ DOMAIN services' = DOMAIN services
          /\ \A k \in DOMAIN services :
                services'[k] =
                   IF k \in last'.change_set
                   THEN [services[k] EXCEPT
                           !.redeploy_ready = (last'.arg = "add")]
                   ELSE services[k]]_vars

----------------------------------------------------------------------------
(* C17 -- no targets, or all alone *)

Resolved == pending.active /\ pending.op = "build-service-set"

\* C17: on a list that is not empty, build_service_set without targets, or
\* with all alone (no subset, no keypath), returns the keys of the list.
C17_AllServices ==
    (/\ Resolved
     /\ \/ ~pending.targets.present
        \/ /\ pending.targets.all
           /\ ~pending.targets.subset.present
           /\ pending.targets.keypath = <<>>) =>
       pending.change_set = DOMAIN services

\* a call without targets on the list of two services
C17_Witness ==
    /\ Resolved
    /\ ~pending.targets.present
    /\ DOMAIN services = Keys
    /\ pending.change_set = Keys

----------------------------------------------------------------------------
(* C18 -- all with a keypath list *)

\* C18: on a list that is not empty, build_service_set with all and a
\* keypath list (no subset) returns the keys of the list that are not in the
\* keypath list, whether or not the listed keys are in the list.
C18_AllExcept ==
    (/\ Resolved
     /\ pending.targets.present /\ pending.targets.all
     /\ ~pending.targets.subset.present
     /\ pending.targets.keypath # <<>>) =>
       pending.change_set =
          {k \in DOMAIN services :
             \A i \in DOMAIN pending.targets.keypath :
                pending.targets.keypath[i] # k}

\* all except A and a key that is not in the list, on the list of two
C18_Witness ==
    /\ Resolved
    /\ pending.targets.all /\ ~pending.targets.subset.present
    /\ pending.targets.keypath = <<"A", UnknownKey>>
    /\ DOMAIN services = Keys
    /\ pending.change_set = {"B"}

----------------------------------------------------------------------------
(* C19 -- a keypath list alone *)

\* C19: on a list that is not empty, build_service_set with a keypath list
\* and without all returns the listed keys, each once however often it is
\* listed, and also those that are not in the list.
C19_KeypathOnly ==
    (/\ Resolved
     /\ pending.targets.present /\ ~pending.targets.all) =>
       /\ \A i \in DOMAIN pending.targets.keypath :
             pending.targets.keypath[i] \in pending.change_set
       /\ \A k \in pending.change_set :
             \E i \in DOMAIN pending.targets.keypath :
                pending.targets.keypath[i] = k
       /\ Cardinality(pending.change_set) <= Len(pending.targets.keypath)

\* a key that is not in the list, listed twice, gives the set of that key
C19_Witness ==
    /\ Resolved /\ ~pending.targets.all
    /\ pending.targets.keypath = <<UnknownKey, UnknownKey>>
    /\ DOMAIN services = Keys
    /\ pending.change_set = {UnknownKey}

----------------------------------------------------------------------------
(* C20 -- subset of all *)

\* what each flag of the subset asks of a record
SubsetAsks(flag, record) ==
    IF flag = "last-redeploy-error" THEN record.last_redeploy_error # NoError
    ELSE IF flag = "no-dry-run-diff" THEN DOMAIN record.dry_run.output = {}
    ELSE IF flag = "no-dry-run-fetched-at" THEN ~record.dry_run.present
    ELSE IF flag = "no-redeployed-at" THEN record.redeployed_at = NoTime
    ELSE IF flag = "redeployed-at" THEN record.redeployed_at # NoTime
    ELSE record.redeploy_ready

\* C20: build_service_set with all and a subset returns the keys of the
\* list whose record meets what at least one of the subset's flags asks;
\* with several flags this is the union of what each flag alone gives, and
\* a keypath list given beside the subset changes nothing.
C20_SubsetOfAll ==
    (/\ Resolved
     /\ pending.targets.present /\ pending.targets.all
     /\ pending.targets.subset.present) =>
       LET flags == pending.targets.subset.flags IN
       /\ pending.change_set =
             {k \in DOMAIN services :
                \E flag \in flags : SubsetAsks(flag, services[k])}
       /\ pending.change_set =
             UNION {build_service_set(TargetSubset({flag}, <<>>)).keys :
                      flag \in flags}
       /\ pending.change_set =
             build_service_set(TargetSubset(flags, <<>>)).keys

\* two flags and a keypath list naming A: A is returned for its error, B
\* for its redeploy-ready
C20_Witness ==
    /\ Resolved
    /\ pending.targets.subset.present
    /\ pending.targets.subset.flags = {"last-redeploy-error", "redeploy-ready"}
    /\ pending.targets.keypath = <<"A">>
    /\ DOMAIN services = Keys
    /\ services["A"].last_redeploy_error # NoError /\ ~services["A"].redeploy_ready
    /\ services["B"].last_redeploy_error = NoError /\ services["B"].redeploy_ready
    /\ pending.change_set = Keys

----------------------------------------------------------------------------
(* C21 -- the empty list *)

\* C21: on the empty list build_service_set raises its error for every
\* target expression (none, all, subset, all with keypath, keypath alone)
\* and returns no key set to act on.
C21_EmptyListFails ==
    (pending.op = "build-service-set" /\ DOMAIN services = {}) =>
       /\ last.status = "fatal"
       /\ ~pending.active
       /\ pending.change_set = {}

\* a keypath list alone on the empty list
C21_Witness ==
    /\ DOMAIN services = {}
    /\ pending.op = "build-service-set"
    /\ pending.targets = TargetKeypath(<<"A">>)
    /\ last.status = "fatal"

----------------------------------------------------------------------------
(* C22 -- the tasks of an activity *)

Scheduled(h) ==
    h.op = "scheduler" /\ (h.request.at_time.given \/ h.request.in_time.given)

\* the base time of the activity: at-time, or in-time from now
BaseTime(request) ==
    IF request.in_time.given
    THEN now + 3600 * request.in_time.hours + 60 * request.in_time.minutes
    ELSE request.at_time.time

TaskOf(h, key) == tasks[TaskName(h.request.action_name, key)]

\* C22: an activity whose base time is not before now, on a list that is
\* not empty, creates one task for each resolved key and no other; the task
\* names the action and that key alone as its target, and for some
\* enumeration of the resolved keys the task of the key at place i (from 0)
\* is due at base time + i * interval.
C22_OneTaskPerKey ==
    (/\ Scheduled(last)
     /\ BaseTime(last.request) >= now
     /\ DOMAIN services # {}
     /\ last.request.in_time.given => last.request.in_time.minutes_given) =>
       LET request == last.request
           keys == last.change_set
       IN  /\ last.status = "ok"
           /\ keys = service_set(request.targets, services)
           /\ DOMAIN tasks = {TaskName(request.action_name, k) : k \in keys}
           /\ Cardinality(DOMAIN tasks) = Cardinality(keys)
           /\ \A k \in keys :
                /\ TaskOf(last, k).keypath = <<k>>
                /\ TaskOf(last, k).action_name = request.action_name
                /\ TaskOf(last, k).dry_run = request.dry_run
           /\ \E order \in Orders(keys) :
                \A i \in DOMAIN order :
                   TaskOf(last, order[i]).time =
                      BaseTime(request) + (i - 1) * request.interval

\* three keys and interval 30: tasks at base, base + 30 and base + 60
C22_Witness ==
    /\ Scheduled(last) /\ last.status = "ok"
    /\ last.request.interval = 30
    /\ last.request.at_time = AtTime(now)
    /\ last.change_set = {"A", "B", UnknownKey}
    /\ {tasks[name].time : name \in DOMAIN tasks} = {now, now + 30, now + 60}
    /\ TaskOf(last, "B").time = now + 60

----------------------------------------------------------------------------
(* C23 -- a time in the past *)

\* C23: an activity whose time lies before now fails and creates no task.
C23_PastFails ==
    (Scheduled(last) /\ BaseTime(last.request) < now) =>
       /\ last.status = "fatal"
       /\ tasks = NoTasks

\* an at-time one before the clock, on a list with services
C23_Witness ==
    /\ Scheduled(last) /\ last.status = "fatal"
    /\ last.request.at_time = AtTime(now - 1) /\ ~last.request.in_time.given
    /\ DOMAIN services = Keys
    /\ tasks = NoTasks

----------------------------------------------------------------------------
(* C24 -- a keypath list beside a subset *)

\* C24 as stated: an activity whose targets hold both a subset and a
\* keypath list is rejected by the scheduler and creates no task.
C24_SubsetWithKeysRejected ==
    (/\ Scheduled(last)
     /\ last.request.targets.subset.present
     /\ last.request.targets.keypath # <<>>) =>
       /\ last.status = "fatal"
       /\ tasks = NoTasks

----------------------------------------------------------------------------
(* C25 -- the wildcard update *)

\* the (sub)services that have an entry in the list
Listed(list) ==
    {u \in Units :
       /\ TopOf(u) \in DOMAIN list
       /\ u \in Keys \/ u \in DOMAIN list[TopOf(u)].modified_services}

\* every stored dry-run device output, of a service or a modified service,
\* is the re-normalization of what was stored
UpdateRenormalizesOutputs ==
    \A u \in Listed(services) :
       LET old == Entry(services, u).dry_run.output
           new == Entry(services', u).dry_run.output
       IN  /\ DOMAIN new = DOMAIN old
           /\ \A d \in DOMAIN old :
                 new[d] = parse_dry_run_table(old[d], wildcard)

\* a diff that changes is replaced, its old text is gone; a diff that does
\* not change stays
UpdateReplacesDiffs ==
    approved_diffs' =
       {parse_dry_run_table(diff, wildcard) : diff \in approved_diffs}

\* C25 as stated: after a wildcard update every stored dry-run device
\* output is its re-normalization under the current wildcards, and every
\* approved diff whose re-normalization differs from it has been replaced by
\* the re-normalized text, the others being untouched.
C25_UpdateRenormalizes ==
    [][ToolDone(last', {"update"}) =>
          UpdateRenormalizesOutputs /\ UpdateReplacesDiffs]_vars

----------------------------------------------------------------------------
(* C26 -- the wildcard rollback *)

\* C26 as stated, in its case of no update in between: a wildcard rollback
\* that follows a dry-run completes, and leaves every device output of the
\* (sub)services of that dry-run equal to the text the executor returned
\* for the device.
C26_RollbackRestores ==
    [][(/\ Applied(last) /\ last.dry_run
        /\ last'.op = "service-list-tools" /\ last'.arg = "rollback") =>
          /\ last'.status = "ok"
          /\ \A u \in Units :
                last.outcome[u] = "DryRunSucceeded" =>
                   /\ DOMAIN Entry(services', u).dry_run.output =
                         DOMAIN last.result[u].device
                   /\ \A d \in DOMAIN last.result[u].device :
                         Entry(services', u).dry_run.output[d] =
                            last.result[u].device[d]]_vars


----------------------------------------------------------------------------
(* C27 -- re-normalizing a fully normalized text *)

\* re.search(pattern, text) finds a match somewhere in the text
Occurs(pattern, text) ==
    \E p \in 1..Len(text) :
       /\ p + Len(pattern) - 1 <= Len(text)
       /\ \A j \in 1..Len(pattern) : text[p + j - 1] \in pattern[j]

NoPatternMatches(table, text) ==
    \A i \in DOMAIN table : ~Occurs(table[i], text)

\* the stored output of d1 is a normalized text: an update has written it
NormalizedStored ==
    /\ ToolDone(last, {"update"})
    /\ "d1" \in DOMAIN services["A"].dry_run.output

\* C27: when no pattern of the wildcard table matches normalize(t, table),
\* normalizing it once more with the same table gives the same text.
C27_NormalizeIdempotent ==
    [][(/\ NormalizedStored
        /\ ToolDone(last', {"update"})
        /\ NoPatternMatches(wildcard, services["A"].dry_run.output["d1"])) =>
          services'["A"].dry_run.output["d1"] =
             services["A"].dry_run.output["d1"]]_vars

\* a text with a masked part that no pattern matches has been normalized
\* a second time
C27_Witness ==
    /\ NormalizedStored
    /\ now >= 3
    /\ Len(wildcard) > 0
    /\ NoPatternMatches(wildcard, services["A"].dry_run.output["d1"])
    /\ \E p \in DOMAIN services["A"].dry_run.output["d1"] :
          services["A"].dry_run.output["d1"][p] = "*WILDCARD"


----------------------------------------------------------------------------
(* C28 -- the approved diffs only grow *)

WildcardUpdate(h) == h.op = "service-list-tools" /\ h.arg = "update"

\* C28: every operation other than a wildcard update (redeploy-top-level,
\* reconcile-sublayers, populate, clear, the redeploy-ready tool, the diff
\* approval, the check of approvals, the wildcard rollback) leaves every
\* approved diff in the set, unaltered.
C28_ApprovedDiffsOnlyGrow ==
    [][~WildcardUpdate(last') => approved_diffs \subseteq approved_diffs']_vars

\* the list has been cleared while approved diffs existed
C28_Witness ==
    /\ approved_diffs # {}
    /\ last.op = "clear"
    /\ last.status = "ok"


----------------------------------------------------------------------------
(* C29 -- a top-level commit consumes the readiness *)

\* the tools that may set redeploy-ready: the add, and the check of
\* approvals (alone or with an approval)
SetsReadiness(h) ==
    /\ h.op = "service-list-tools"
    /\ h.arg \in {"add", "check", "approve+check"}

Unflagged(list, key) == key \in DOMAIN list /\ ~list[key].redeploy_ready

TopLevelCommit(h, key) ==
    h.op = "redeploy-top-level" /\ ~h.dry_run /\ key \in h.change_set

----------------------------------------------------------------------------
(* C30 -- the sublayers of one top-level service in a reconcile pass *)

\* able_to_redeploy on the record of the top-level service, as the pass
\* finds it
ParentEligible(h, list, key) ==
    \/ h.dry_run
    \/ list[key].redeploy_ready
    \/ list[key].redeployed_at # NoTime

Sublayers(list, key) == DOMAIN list[key].modified_services

\* C30: in a reconcile-sublayers pass every sublayer the pass comes to is
\* handed to the executor iff the record of its parent top-level service
\* allows it (dry-run, or the parent's redeploy-ready, or the parent's
\* redeployed-at), whatever its own record holds; the pass leaves the
\* parent's redeploy-ready and redeployed-at as they were; and the sublayers
\* of one top-level service are all skipped, or all handed to the executor
\* (or none is come to, when the pass has failed before).
C30_ParentDecidesAllSublayers ==
    [][last'.op = "reconcile-sublayers" =>
         \A key \in last'.change_set \cap DOMAIN services :
            /\ \A m \in Sublayers(services, key) :
                  last'.outcome[m] # "Idle" =>
                     /\ Executed(last', m) <=>
                           ParentEligible(last', services, key)
                     /\ last'.calls[m] =
                           IF ParentEligible(last', services, key)
                           THEN 1 ELSE 0
            /\ key \in DOMAIN services'
            /\ services'[key].redeploy_ready = services[key].redeploy_ready
            /\ services'[key].redeployed_at = services[key].redeployed_at
            /\ \/ \A m \in Sublayers(services, key) :
                     last'.outcome[m] = "Skipped"
               \/ \A m \in Sublayers(services, key) : Executed(last', m)
               \/ \A m \in Sublayers(services, key) :
                     last'.outcome[m] = "Idle"]_vars

\* a reconcile commit that skipped both sublayers of A, whose record has
\* neither flag, although A1's own record has redeploy-ready
C30_Witness ==
    /\ Applied(last) /\ last.op = "reconcile-sublayers" /\ ~last.dry_run
    /\ last.outcome["A1"] = "Skipped"
    /\ last.outcome["A2"] = "Skipped"
    /\ ~services["A"].redeploy_ready
    /\ services["A"].redeployed_at = NoTime
    /\ Entry(services, "A1").redeploy_ready


----------------------------------------------------------------------------
(* C31 -- each pass writes the records of its own layer *)

\* the fields of a top-level entry that are its own
TopLevelFields(service) ==
    [dry_run |-> service.dry_run, redeploy_ready |-> service.redeploy_ready,
     redeployed_at |-> service.redeployed_at,
     last_redeploy_error |-> service.last_redeploy_error]

\* C31: a reconcile-sublayers pass leaves the dry-run record, redeploy-ready,
\* redeployed-at and last-redeploy-error of every top-level entry as they
\* were, and a redeploy-top-level pass leaves every entry under
\* modified-services as it was.
C31_OwnLayerOnly ==
    [][/\ last'.op = "reconcile-sublayers" =>
            \A key \in DOMAIN services :
               /\ key \in DOMAIN services'
               /\ TopLevelFields(services'[key]) = TopLevelFields(services[key])
       /\ last'.op = "redeploy-top-level" =>
            \A key \in DOMAIN services :
               /\ key \in DOMAIN services'
               /\ services'[key].modified_services =
                     services[key].modified_services]_vars

\* a top-level dry-run of A has written A's dry-run record, and the dry-run
\* record that an earlier reconcile pass gave A1 is still the earlier one
C31_Witness ==
    /\ Applied(last) /\ last.op = "redeploy-top-level"
    /\ last.outcome["A"] = "DryRunSucceeded"
    /\ services["A"].dry_run.present
    /\ Entry(services, "A1").dry_run.present
    /\ Entry(services, "A1").dry_run.fetched_at < services["A"].dry_run.fetched_at


----------------------------------------------------------------------------
(* C32 -- approve, then check *)

\* the approval of the diff of one service, completed
Approved(h, key) == ToolDone(h, {"approve"}) /\ h.target = key

\* C32 as stated: for a service with a non-empty dry-run output, the
\* approval of its diff followed by the check of approvals, the wildcards
\* and the dry-run record being the same for both, leaves redeploy-ready set
\* on the service.
C32_ApproveThenCheck ==
    [][\A key \in Keys :
         (/\ Approved(last, key)
          /\ key \in DOMAIN services
          /\ DOMAIN services[key].dry_run.output # {}
          /\ ToolDone(last', {"check"})) =>
            /\ key \in DOMAIN services'
            /\ services'[key].redeploy_ready]_vars


----------------------------------------------------------------------------
(* C33 -- clear *)

\* clear has returned its message to the caller: no exception ended it
ClearCompleted(h) == h.op = "clear" /\ h.status # "fatal"

\* C33 as stated: after a clear that completes, the list holds exactly the
\* keys it held before less the resolved clear set, each with its entry as
\* it was: every resolved key is gone, also when the clear set is the whole
\* list, and no other entry is removed, also when the clear set has as many
\* keys as the list and names keys that are not in it.
C33_ClearRemovesExactly ==
    [][ClearCompleted(last') =>
          /\ DOMAIN services' = DOMAIN services \ last'.change_set
          /\ \A key \in DOMAIN services' : services'[key] = services[key]]_vars

====
